---- MODULE Spec2Model ----
(***************************************************************************)
(* MemeWiki API (src/main.py, src/schemas.py) as a state machine.          *)
(*                                                                         *)
(* State: the two MongoDB collections "meme" and "comment" (sequences in   *)
(* insertion order), the process-wide handle db, the add_comment requests  *)
(* that have passed their existence lookup and not yet inserted, the last  *)
(* HTTP response, and a ledger of acknowledged creations and votes.        *)
(*                                                                         *)
(* Values.  A Python str is a sequence of one-character strings, so that   *)
(* case folding, substring and pattern matching are computed.  An          *)
(* Optional value is None (<<>>) or Some(v) (<<v>>); in a request payload  *)
(* None also stands for a field the JSON body leaves out.  A document     *)
(* keeps title, caption, origin_summary, text and created_at in that form; *)
(* its updated_at is "absent" until a vote sets it to "null".              *)
(*                                                                         *)
(* inflight is a set: two identical add_comment requests between lookup    *)
(* and insert at the same moment count once.  get_meme does not write, and *)
(* memes are never removed, so its two reads are taken in one step.        *)
(*                                                                         *)
(* Fields of Meme that no handler reads or writes individually (image_url, *)
(* first_seen_at, sources, submitter) and Comment.author are carried by    *)
(* the program unchanged from payload to document and are left out.        *)
(***************************************************************************)
EXTENDS Integers, Sequences, FiniteSets, TLC

VARIABLES db, meme, comment, inflight, resp, ledger

vars == <<db, meme, comment, inflight, resp, ledger>>

---------------------------------------------------------------------------
(* Bounds of the model *)

\* documents inserted, comments awaiting their insert, and votes acknowledged
MaxWrites == 3
\* largest limit a listing asks for
MaxLimit == 2
\* hex digits of an ObjectId string (24 in bson, scaled down)
OidLen == 3

---------------------------------------------------------------------------
(* Values *)

None == <<>>
Some(v) == <<v>>

\* Python truthiness of an Optional[str]: None and "" are falsy
Truthy(o) == o # None /\ o[1] # <<>>

Min(a, b) == IF a < b THEN a ELSE b

Lower(c) ==
  CASE c = "A" -> "a"
    [] c = "B" -> "b"
    [] c = "C" -> "c"
    [] c = "F" -> "f"
    [] OTHER -> c

LowerStr(s) == [i \in 1..Len(s) |-> Lower(s[i])]

Take(s, n) == SubSeq(s, 1, Min(n, Len(s)))

---------------------------------------------------------------------------
(* bson.ObjectId *)

HexChars == {"a", "b", "A", "B"}

\* ObjectId(s): a str of exactly OidLen hex digits, either case, becomes the
\* identifier (kept in its canonical lower-case form); anything else raises
\* InvalidId, here None.
ObjectId(s) ==
  IF Len(s) = OidLen /\ \A i \in 1..Len(s) : s[i] \in HexChars
    THEN Some(LowerStr(s))
    ELSE None

\* str(oid): lower-case hex
StrOid(oid) == oid

OidDigit(d) == IF d = 0 THEN "a" ELSE "b"

\* n in OidLen - 1 digits
OidDigits(n) ==
  [i \in 1..(OidLen - 1) |-> OidDigit((n \div (2 ^ (OidLen - 1 - i))) % 2)]

\* how many identifiers one collection can be given
OidCapacity == 2 ^ (OidLen - 1)

\* The identifiers the driver generates are pairwise distinct: the n-th of
\* the meme collection and the n-th of the comment collection (n = 0, 1, ...)
MemeOid(n) == <<"a">> \o OidDigits(n)

CommentOid(n) == <<"b">> \o OidDigits(n)

---------------------------------------------------------------------------
(* src/schemas.py: pydantic validation, run by FastAPI before the handler; *)
(* a payload that fails it is answered 422 and the handler never runs.     *)

\* Meme: title is required (a str, any str); upvotes and downvotes are ge=0
MemeValidNoGe(p) == p.title # None

MemeValid(p) ==
  /\ p.title # None
  /\ p.upvotes >= 0
  /\ p.downvotes >= 0

\* Comment: meme_id and text are required (any str); created_at is optional
CommentValidNoText(c) == c.meme_id # None

CommentValid(c) ==
  /\ c.meme_id # None
  /\ c.text # None

\* VoteBody: direction is required (any str)
VoteBodyValid(b) == b.direction # None

\* Meme.model_dump(): the payload with its defaults filled in
MemeDump(p) ==
  [title |-> p.title, caption |-> p.caption, origin_summary |-> p.origin_summary,
   tags |-> p.tags, upvotes |-> p.upvotes, downvotes |-> p.downvotes]

\* Comment.model_dump()
CommentDump(c) ==
  [meme_id |-> c.meme_id[1], text |-> c.text, created_at |-> c.created_at]

---------------------------------------------------------------------------
(* The MongoDB operations the handlers issue *)

\* MongoDB orders null below every timestamp (timestamps here are >= 1)
SortKey(c) == IF c.created_at = None THEN 0 ELSE c.created_at[1]

SortedAsc(s) == \A i, j \in 1..Len(s) : i < j => SortKey(s[i]) <= SortKey(s[j])

\* .sort("created_at", -1): descending; the order of equal keys is the engine's
SortedDesc(s) == \A i, j \in 1..Len(s) : i < j => SortKey(s[i]) >= SortKey(s[j])

Perms(n) == {p \in [1..n -> 1..n] : \A i, j \in 1..n : p[i] = p[j] => i = j}

\* every outcome find(...).sort("created_at", -1) can produce
SortResults(found) ==
  {s \in {[i \in 1..Len(found) |-> found[p[i]]] : p \in Perms(Len(found))} :
     SortedDesc(s)}

\* db["meme"].find_one({"_id": oid}): the index of the document, 0 for None
FindOne(oid) ==
  IF \E i \in 1..Len(meme) : meme[i]._id = oid
    THEN CHOOSE i \in 1..Len(meme) : meme[i]._id = oid
    ELSE 0

\* db["comment"].find({"meme_id": meme_id}): string equality on the stored field
FindComments(meme_id) == SelectSeq(comment, LAMBDA c : c.meme_id = meme_id)

\* {"$inc": {field: 1}} written as {"$set": {field: 1}}
IncSet(doc, field) == [doc EXCEPT ![field] = 1]

\* {"$inc": {field: 1}}
Inc(doc, field) == [doc EXCEPT ![field] = @ + 1]

\* {"$inc": inc, "$set": {"updated_at": None}} on one document
UpdateVote(doc, field) == [Inc(doc, field) EXCEPT !.updated_at = "null"]

\* {"$regex": q, "$options": "i"} on one pattern character: "." matches any
\* character, any other character matches itself in either case
CharMatches(p, c) == p = "." \/ Lower(p) = Lower(c)

MatchesAt(pat, s, off) ==
  /\ off + Len(pat) <= Len(s)
  /\ \A i \in 1..Len(pat) : CharMatches(pat[i], s[off + i])

\* an unanchored pattern search in a field; a null field matches nothing
RegexSearch(pat, field) ==
  /\ field # None
  /\ \E off \in 0..Len(field[1]) : MatchesAt(pat, field[1], off)

\* the filter without its "tags" clause
MatchesIgnoringTags(doc, filter_dict) ==
  filter_dict.or # None =>
     \E f \in {"title", "caption", "origin_summary"} :
        RegexSearch(filter_dict.or[1], doc[f])

\* whether a document satisfies filter_dict: "$or" over the three regex
\* clauses, and {"tags": {"$in": [tag]}} (an element of tags equal to tag)
Matches(doc, filter_dict) ==
  /\ filter_dict.or # None =>
        \E f \in {"title", "caption", "origin_summary"} :
           RegexSearch(filter_dict.or[1], doc[f])
  /\ filter_dict.tags_in # None =>
        \E i \in 1..Len(doc.tags) : doc.tags[i] = filter_dict.tags_in[1]

---------------------------------------------------------------------------
(* database.py (not among the sources) *)

\* create_document(collection, data): one document inserted as given, with a
\* fresh _id
create_document(collection_name, data) ==
  [_id |-> IF collection_name = "meme" THEN MemeOid(Len(meme))
                                       ELSE CommentOid(Len(comment))] @@ data

\* get_documents("meme", filter_dict, limit): the matching documents, at most
\* limit of them
get_documents(filter_dict, limit) ==
  Take(SelectSeq(meme, LAMBDA d : Matches(d, filter_dict)), limit)

---------------------------------------------------------------------------
(* src/main.py *)

\* the _id field leaves, its str() arrives as id
to_json(doc) ==
  [f \in (DOMAIN doc \ {"_id"}) \cup {"id"} |->
     IF f = "id" THEN StrOid(doc._id) ELSE doc[f]]

\* acknowledged votes
RECURSIVE Votes(_)
Votes(l) == IF l = <<>> THEN 0 ELSE Head(l).up + Head(l).down + Votes(Tail(l))

\* what the bound MaxWrites counts
Writes == Len(meme) + Len(comment) + Cardinality(inflight) + Votes(ledger)

Response(op, status, detail, body) ==
  [op |-> op, status |-> status, detail |-> detail, body |-> body]

Respond(op, status, detail, body) ==
  resp' = Response(op, status, detail, body)

\* POST /api/memes
create_meme(p) ==
  IF ~MemeValid(p)
    THEN /\ Respond("create_meme", 422, "validation", <<>>)
         /\ UNCHANGED <<db, meme, comment, inflight, ledger>>
  ELSE IF ~db
    THEN /\ Respond("create_meme", 500, "Database not available", <<>>)
         /\ UNCHANGED <<db, meme, comment, inflight, ledger>>
  ELSE /\ Writes < MaxWrites
       /\ Len(meme) < OidCapacity
       /\ LET doc == create_document("meme", MemeDump(p) @@ [updated_at |-> "absent"]) IN
            /\ meme' = Append(meme, doc)
            /\ ledger' = Append(ledger, [upvotes |-> p.upvotes, downvotes |-> p.downvotes,
                                         up |-> 0, down |-> 0])
            /\ Respond("create_meme", 200, "", <<StrOid(doc._id)>>)
       /\ UNCHANGED <<db, comment, inflight>>

\* lines 65-74: "if q:" and "if tag:" skip None and ""
FilterDict(q, tag) ==
  [or |-> IF Truthy(q) THEN q ELSE None,
   tags_in |-> IF Truthy(tag) THEN tag ELSE None]

\* GET /api/memes
list_memes(q, tag, limit) ==
  /\ IF ~db
       THEN Respond("list_memes", 500, "Database not available", <<>>)
       ELSE LET docs == get_documents(FilterDict(q, tag), limit) IN
              Respond("list_memes", 200, "",
                      [i \in 1..Len(docs) |-> to_json(docs[i])])
  /\ UNCHANGED <<db, meme, comment, inflight, ledger>>

\* GET /api/memes/{meme_id}
get_meme(meme_id) ==
  /\ IF ~db
       THEN Respond("get_meme", 500, "Database not configured", <<>>)
     ELSE IF ObjectId(meme_id) = None
       \* InvalidId, raised inside the try: "except Exception" makes it a 500
       THEN Respond("get_meme", 500, "InvalidId", <<>>)
     ELSE IF FindOne(ObjectId(meme_id)[1]) = 0
       \* HTTPException(404), raised inside the try: it is an Exception, so
       \* the same handler replaces it by a 500 carrying its text
       THEN Respond("get_meme", 500, "404: Meme not found", <<>>)
     ELSE \E comments \in SortResults(FindComments(meme_id)) :
            Respond("get_meme", 200, "",
                    <<to_json(meme[FindOne(ObjectId(meme_id)[1])]) @@
                      [comments |-> [i \in 1..Len(comments) |-> to_json(comments[i])]]>>)
  /\ UNCHANGED <<db, meme, comment, inflight, ledger>>

DirectionUnchecked(direction) == TRUE

\* line 107
DirectionOk(direction) == direction \in {<<"u", "p">>, <<"d", "o", "w", "n">>}

\* line 109
IncField(direction) == IF direction = <<"u", "p">> THEN "upvotes" ELSE "downvotes"

LedgerField(direction) == IF direction = <<"u", "p">> THEN "up" ELSE "down"

\* POST /api/memes/{meme_id}/vote
vote_meme(meme_id, body) ==
  IF ~VoteBodyValid(body)
    THEN /\ Respond("vote_meme", 422, "validation", <<>>)
         /\ UNCHANGED <<db, meme, comment, inflight, ledger>>
  ELSE IF ~db
    THEN /\ Respond("vote_meme", 500, "Database not configured", <<>>)
         /\ UNCHANGED <<db, meme, comment, inflight, ledger>>
  ELSE IF ~DirectionOk(body.direction[1])
    THEN /\ Respond("vote_meme", 400, "Invalid direction", <<>>)
         /\ UNCHANGED <<db, meme, comment, inflight, ledger>>
  ELSE IF ObjectId(meme_id) = None
    \* InvalidId, raised outside any try: the framework answers 500
    THEN /\ Respond("vote_meme", 500, "Internal Server Error", <<>>)
         /\ UNCHANGED <<db, meme, comment, inflight, ledger>>
  ELSE LET i == FindOne(ObjectId(meme_id)[1]) IN
       IF i = 0
         THEN /\ Respond("vote_meme", 404, "Meme not found", <<>>)
              /\ UNCHANGED <<db, meme, comment, inflight, ledger>>
         ELSE /\ Writes < MaxWrites
              /\ meme' = [meme EXCEPT ![i] = UpdateVote(@, IncField(body.direction[1]))]
              /\ ledger' = [ledger EXCEPT ![i][LedgerField(body.direction[1])] = @ + 1]
              /\ Respond("vote_meme", 200, "", <<>>)
              /\ UNCHANGED <<db, comment, inflight>>

\* POST /api/memes/{meme_id}/comments, up to and including the lookup of
\* line 122; a request that passes it waits in inflight for its insert
add_comment_lookup(meme_id, c) ==
  LET req == [meme_id |-> meme_id, payload |-> c] IN
  IF ~CommentValid(c)
    THEN /\ Respond("add_comment", 422, "validation", <<>>)
         /\ UNCHANGED <<db, meme, comment, inflight, ledger>>
  ELSE IF ~db
    THEN /\ Respond("add_comment", 500, "Database not configured", <<>>)
         /\ UNCHANGED <<db, meme, comment, inflight, ledger>>
  ELSE IF ObjectId(meme_id) = None
    \* InvalidId, raised outside any try: the framework answers 500
    THEN /\ Respond("add_comment", 500, "Internal Server Error", <<>>)
         /\ UNCHANGED <<db, meme, comment, inflight, ledger>>
  ELSE IF FindOne(ObjectId(meme_id)[1]) = 0
    THEN /\ Respond("add_comment", 404, "Meme not found", <<>>)
         /\ UNCHANGED <<db, meme, comment, inflight, ledger>>
  ELSE /\ Writes < MaxWrites
       /\ Len(comment) + Cardinality(inflight) < OidCapacity
       /\ inflight' = inflight \cup {req}
       /\ UNCHANGED <<db, meme, comment, resp, ledger>>

\* lines 124-125
Stamp(meme_id, c) == [CommentDump(c) EXCEPT !.meme_id = meme_id]

\* lines 124-127 of a request that passed the lookup
add_comment_insert(req) ==
  /\ req \in inflight
  /\ LET doc == create_document("comment", Stamp(req.meme_id, req.payload)) IN
       /\ comment' = Append(comment, doc)
       /\ Respond("add_comment", 200, "", <<StrOid(doc._id)>>)
  /\ inflight' = inflight \ {req}
  /\ UNCHANGED <<db, meme, ledger>>

---------------------------------------------------------------------------
(* Requests *)

\* path ids: the first two meme identifiers, the first in upper case, a
\* well-formed identifier no meme is given, one with a non-hex digit and one
\* a digit short
IdStrings ==
  {MemeOid(0), MemeOid(1), [MemeOid(0) EXCEPT ![1] = "A"], CommentOid(0),
   [MemeOid(0) EXCEPT ![OidLen] = "g"], SubSeq(MemeOid(0), 1, OidLen - 1)}

Up == <<"u", "p">>
Down == <<"d", "o", "w", "n">>

Directions == {None, Some(Up), Some(Down), Some(<<"l", "e", "f", "t">>)}

MemeBase ==
  [title |-> Some(<<"c">>), caption |-> None, origin_summary |-> None,
   tags |-> <<>>, upvotes |-> 0, downvotes |-> 0]

MemePayloads ==
  {MemeBase,
   [MemeBase EXCEPT !.title = Some(<<>>), !.upvotes = 1],
   [MemeBase EXCEPT !.title = None],
   [MemeBase EXCEPT !.upvotes = -1],
   [MemeBase EXCEPT !.downvotes = -1]}

CommentBase ==
  [meme_id |-> Some(<<"g">>), text |-> Some(<<"x">>), created_at |-> Some(1)]

CommentPayloads ==
  {CommentBase,
   [CommentBase EXCEPT !.created_at = Some(2)],
   [CommentBase EXCEPT !.text = Some(<<>>), !.created_at = None],
   [CommentBase EXCEPT !.text = None],
   [CommentBase EXCEPT !.meme_id = None]}

Queries == {None, Some(<<"c">>)}

TagQueries == {None}

Limits == 1..MaxLimit

---------------------------------------------------------------------------
(* The API under concurrent requests: each step is one handler, or one of  *)
(* the two database round trips of add_comment                             *)

Init ==
  /\ db \in BOOLEAN
  /\ meme = <<>>
  /\ comment = <<>>
  /\ inflight = {}
  /\ ledger = <<>>
  /\ resp = Response("none", 0, "", <<>>)

Next ==
  \/ \E p \in MemePayloads : create_meme(p)
  \/ \E q \in Queries, tag \in TagQueries, limit \in Limits : list_memes(q, tag, limit)
  \/ \E meme_id \in IdStrings : get_meme(meme_id)
  \/ \E meme_id \in IdStrings, d \in Directions : vote_meme(meme_id, [direction |-> d])
  \/ \E meme_id \in IdStrings, c \in CommentPayloads : add_comment_lookup(meme_id, c)
  \/ \E req \in inflight : add_comment_insert(req)

Spec == Init /\ [][Next]_vars

---------------------------------------------------------------------------
(* Listing and search on their own: memes with text in every searched      *)
(* field, and every shape of query                                         *)

SearchMemePayloads ==
  {[MemeBase EXCEPT !.title = Some(<<"C", "a">>), !.tags = <<<<"f">>>>],
   [MemeBase EXCEPT !.title = Some(<<"b">>), !.caption = Some(<<"c">>),
                    !.tags = <<<<"b">>, <<"f", "a">>>>],
   [MemeBase EXCEPT !.title = Some(<<"b">>), !.origin_summary = Some(<<"a", "C">>),
                    !.tags = <<<<"F">>>>],
   [MemeBase EXCEPT !.title = Some(<<"b">>)]}

SearchQueries == {None, Some(<<>>), Some(<<"C", "A">>), Some(<<".">>), Some(<<"c", ".">>)}

SearchTagQueries == {None, Some(<<>>), Some(<<"f">>), Some(<<"a">>)}

NextSearch ==
  \/ \E p \in SearchMemePayloads : create_meme(p)
  \/ \E q \in SearchQueries, tag \in SearchTagQueries, limit \in Limits :
        list_memes(q, tag, limit)

SpecSearch == Init /\ [][NextSearch]_vars

---------------------------------------------------------------------------
(* Properties *)

\* the path id names no stored meme: it does not parse, or no meme has the
\* identifier it parses to
NoStoredMeme(meme_id) ==
  \/ ObjectId(meme_id) = None
  \/ \A i \in 1..Len(meme) : meme[i]._id # ObjectId(meme_id)[1]

\* the stored comments whose meme_id is the given string, as JSON, oldest first
StoredComments(meme_id) ==
  LET cs == SelectSeq(comment, LAMBDA c : c.meme_id = meme_id)
  IN  [i \in 1..Len(cs) |-> to_json(cs[i])]

Reverse(s) == [i \in 1..Len(s) |-> s[Len(s) + 1 - i]]

\* s occurs in t, letter case ignored
ContainsCI(s, t) ==
  \E i \in 1..(Len(t) + 1) : \E j \in (i - 1)..Len(t) :
     LowerStr(SubSeq(t, i, j)) = LowerStr(s)

\* the pattern q, "." standing for any one character and letter case
\* ignored, matches some substring of t
PatternOccurs(q, t) ==
  \E i \in 1..(Len(t) + 1) : \E j \in (i - 1)..Len(t) :
     LET u == SubSeq(t, i, j)
     IN  /\ Len(u) = Len(q)
         /\ \A k \in 1..Len(q) : q[k] = "." \/ Lower(q[k]) = Lower(u[k])

\* a query parameter that is present and not the empty string
Given(o) == o \notin {None, Some(<<>>)}

SearchedFields(r) == {r.title, r.caption, r.origin_summary} \ {None}

(* C1 *)
C1_LedgerInv ==
  \A i \in 1..Len(meme) :
     /\ meme[i].upvotes = ledger[i].upvotes + ledger[i].up
     /\ meme[i].downvotes = ledger[i].downvotes + ledger[i].down

C1_VoteStep(meme_id, d) ==
  (resp'.op = "vote_meme" /\ resp'.status = 200
      /\ vote_meme(meme_id, [direction |-> Some(d)])) =>
     \E i \in 1..Len(meme) :
        /\ Some(meme[i]._id) = ObjectId(meme_id)
        /\ Len(meme') = Len(meme)
        /\ \A k \in 1..Len(meme) : k # i =>
              /\ meme'[k].upvotes = meme[k].upvotes
              /\ meme'[k].downvotes = meme[k].downvotes
        /\ meme'[i].upvotes = meme[i].upvotes + (IF d = Up THEN 1 ELSE 0)
        /\ meme'[i].downvotes = meme[i].downvotes + (IF d = Down THEN 1 ELSE 0)

\* C1: one successful "up" vote raises the upvotes of the voted meme by
\* exactly 1 and changes no other counter (symmetrically for "down"); and
\* after every step of every interleaving of requests each meme's upvotes
\* are its upvotes at creation plus the number of successful "up" votes on
\* it, its downvotes likewise: no acknowledged vote is lost.
C1_VotesCounted ==
  [][/\ C1_LedgerInv'
     /\ \A meme_id \in IdStrings, d \in {Up, Down} : C1_VoteStep(meme_id, d)]_vars

\* a meme created with one upvote has two acknowledged "up" votes
C1_Witness ==
  /\ resp.op = "vote_meme" /\ resp.status = 200
  /\ \E i \in 1..Len(meme) :
        ledger[i].upvotes = 1 /\ ledger[i].up = 2 /\ meme[i].upvotes = 3

(* C2 *)
\* C2 (as claimed): with the database configured, get_meme of an id that
\* names no stored meme, well-formed or not, answers 404.
C2_GetMemeNotFound ==
  [][\A meme_id \in IdStrings :
       (db /\ NoStoredMeme(meme_id) /\ get_meme(meme_id)) => resp'.status = 404]_vars

(* C3 *)
\* C3 (as claimed): vote_meme with direction "up" or "down" and an id that
\* names no stored meme, well-formed or not, answers 404 and leaves both
\* collections as they were.
C3_VoteNotFound ==
  [][\A meme_id \in IdStrings, d \in {Up, Down} :
       (db /\ NoStoredMeme(meme_id) /\ vote_meme(meme_id, [direction |-> Some(d)])) =>
          /\ resp'.status = 404
          /\ UNCHANGED <<meme, comment>>]_vars

(* C4 *)
\* C4: with the database configured, vote_meme with a direction other than
\* "up" and "down" answers 400 whatever the meme id (of a stored meme, of
\* none, malformed), and changes no stored document.
C4_BadDirection ==
  [][\A meme_id \in IdStrings, d \in Directions :
       (resp'.op = "vote_meme" /\ db /\ d # None /\ d \notin {Some(Up), Some(Down)}
           /\ vote_meme(meme_id, [direction |-> d])) =>
          /\ resp'.status = 400
          /\ UNCHANGED <<meme, comment>>]_vars

\* a 400 answered while a meme with votes is stored
C4_Witness ==
  /\ resp.op = "vote_meme" /\ resp.status = 400
  /\ \E i \in 1..Len(meme) : ledger[i].up + ledger[i].down > 0

(* C5 *)
\* C5 (as claimed): add_comment with a valid payload and a path id that
\* names no stored meme answers 404 and inserts no comment.
C5_CommentNotFound ==
  [][\A meme_id \in IdStrings, c \in CommentPayloads :
       (db /\ c.meme_id # None /\ c.text # None /\ NoStoredMeme(meme_id)
           /\ add_comment_lookup(meme_id, c)) =>
          /\ resp'.status = 404
          /\ UNCHANGED <<comment, inflight>>]_vars

C6_Listed(meme_id) ==
  LET cs == resp'.body[1].comments
      stored == StoredComments(meme_id)
  IN  /\ Len(cs) = Len(stored)
      /\ {cs[i] : i \in 1..Len(cs)} = {stored[i] : i \in 1..Len(stored)}
      /\ \A i, j \in 1..Len(cs) : i < j =>
            \/ cs[j].created_at = None
            \/ /\ cs[i].created_at # None
               /\ cs[i].created_at[1] >= cs[j].created_at[1]

C7_NonNegative ==
  \A i \in 1..Len(meme) : meme[i].upvotes >= 0 /\ meme[i].downvotes >= 0

C7_Changed(i) ==
  meme'[i].upvotes # meme[i].upvotes \/ meme'[i].downvotes # meme[i].downvotes

C7_Step ==
  /\ Len(meme') >= Len(meme)
  /\ \A i \in 1..Len(meme) :
        /\ meme'[i].upvotes >= meme[i].upvotes
        /\ meme'[i].downvotes >= meme[i].downvotes
        /\ C7_Changed(i) =>
              /\ resp'.op = "vote_meme" /\ resp'.status = 200
              /\ meme'[i].upvotes + meme'[i].downvotes
                    = meme[i].upvotes + meme[i].downvotes + 1
              /\ \A k \in 1..Len(meme) : k # i => ~C7_Changed(k)

\* C7: after every step every stored meme has upvotes >= 0 and
\* downvotes >= 0; no step lowers a counter of a stored meme; a step that
\* changes one is a successful vote_meme and raises one counter of one meme
\* by exactly 1.
C7_Counters == [][C7_NonNegative' /\ C7_Step]_vars

\* a meme voted up and down
C7_Witness ==
  \E i \in 1..Len(meme) :
     /\ ledger[i].up > 0 /\ ledger[i].down > 0
     /\ meme[i].upvotes > 0 /\ meme[i].downvotes > 0

(* C8 *)
\* C8 (as claimed): list_memes returns at most limit memes, and each one
\* has q, when q is given (a non-empty string), as a case-insensitive
\* substring of its title, caption or origin_summary, and has, when tag is
\* given (a non-empty string), an element of tags equal to tag.
C8_Filtered ==
  [][\A q \in SearchQueries, tag \in SearchTagQueries, limit \in Limits :
       (resp'.op = "list_memes" /\ resp'.status = 200 /\ list_memes(q, tag, limit)) =>
          /\ Len(resp'.body) <= limit
          /\ \A n \in 1..Len(resp'.body) :
                LET r == resp'.body[n]
                IN  /\ Given(q) => \E f \in SearchedFields(r) : ContainsCI(q[1], f[1])
                    /\ Given(tag) => \E k \in 1..Len(r.tags) : r.tags[k] = tag[1]]_vars

C8_Returned(q, tag, limit) ==
  /\ Len(resp'.body) <= limit
  /\ \A n \in 1..Len(resp'.body) :
        LET r == resp'.body[n]
        IN  /\ \E i \in 1..Len(meme) : r = to_json(meme[i])
            /\ Given(q) =>
                  \E f \in SearchedFields(r) : PatternOccurs(q[1], f[1])
            /\ (Given(q) /\ \A k \in 1..Len(q[1]) : q[1][k] # ".") =>
                  \E f \in SearchedFields(r) : ContainsCI(q[1], f[1])
            /\ Given(tag) =>
                  \E k \in 1..Len(r.tags) : r.tags[k] = tag[1]

\* C8 (amended): list_memes returns at most limit stored memes (limit
\* positive), and each one has, when q is given (a non-empty string), a
\* title, caption or origin_summary in which q matches as a
\* case-insensitive regular expression (as a substring when q has no
\* metacharacter), and has, when tag is given (a non-empty string), an
\* element of tags equal to tag; both when both are given.
C8_FilteredByPattern ==
  [][\A q \in SearchQueries, tag \in SearchTagQueries, limit \in Limits :
       (resp'.op = "list_memes" /\ resp'.status = 200 /\ list_memes(q, tag, limit)) =>
          C8_Returned(q, tag, limit)]_vars

\* a listing that leaves out a stored meme and returns one stored after it
C8_Witness ==
  /\ resp.op = "list_memes" /\ resp.status = 200
  /\ \E i, j \in 1..Len(meme) :
        /\ i < j
        /\ \A n \in 1..Len(resp.body) : resp.body[n] # to_json(meme[i])
        /\ \E n \in 1..Len(resp.body) : resp.body[n] = to_json(meme[j])

(* C9 *)
\* C9 (as claimed): every stored meme has a non-empty title and every
\* stored comment a non-empty text.
C9_NonEmpty ==
  /\ \A i \in 1..Len(meme) : meme[i].title \notin {None, Some(<<>>)}
  /\ \A i \in 1..Len(comment) : comment[i].text \notin {None, Some(<<>>)}

C9_Stored ==
  /\ \A i \in 1..Len(meme) : meme[i].title # None
  /\ \A i \in 1..Len(comment) : comment[i].text # None

C9_Rejected ==
  /\ \A p \in MemePayloads :
        (resp'.op = "create_meme" /\ p.title = None /\ create_meme(p)) =>
           resp'.status = 422 /\ UNCHANGED <<meme, comment, inflight>>
  /\ \A meme_id \in IdStrings, c \in CommentPayloads :
        (resp'.op = "add_comment" /\ c.text = None /\ add_comment_lookup(meme_id, c)) =>
           resp'.status = 422 /\ UNCHANGED <<meme, comment, inflight>>

\* C9 (amended): every stored meme has a title and every stored comment a
\* text, each a string that may be empty; create_meme without a title and
\* add_comment without a text are answered 422 and touch no storage.
C9_Present == [][C9_Stored' /\ C9_Rejected]_vars

\* a meme stored with the empty title and a comment stored with the empty text
C9_Witness ==
  /\ \E i \in 1..Len(meme) : meme[i].title = Some(<<>>)
  /\ \E i \in 1..Len(comment) : comment[i].text = Some(<<>>)

(* C10 *)
\* C10 (as claimed): every stored comment's meme_id equals the external id
\* of a stored meme.
C10_NoOrphan ==
  \A i \in 1..Len(comment) :
     \E k \in 1..Len(meme) : comment[i].meme_id = StrOid(meme[k]._id)

====
